---- MODULE Spec2Model ----
(***************************************************************************)
(* Model of the asymmetric travelling-salesman tour representation:        *)
(*   - helpers/sparse_fisher_yates.py   (lazy random permutation)           *)
(*   - travelling_salesman.py           (Problem, Solution)                 *)
(*   - construction/new_lb_constructor.py, construction/simple_lb.py        *)
(*   - atsp_3opt.py, local_solvers/atsp_shift_insert.py                     *)
(*                                                                         *)
(* Python lists are modelled as TLA+ sequences; a Python index k is the    *)
(* TLA+ index k+1.  Cities are the integers 0..dimension-1.                *)
(* lower_bound_value is a Python float that is always a multiple of 1/2;   *)
(* the model stores TWICE its value (an integer), so "x / 2" of the source *)
(* is "x" here and a whole distance "d" of the source is "2*d" here.       *)
(***************************************************************************)
EXTENDS Integers, Sequences, FiniteSets, TLC

VARIABLES gen,                  \* the sparse_fisher_yates_iter generator
          problem,              \* Problem instance
          imp,                  \* class providing add / lower_bound_incr_add
          engine,               \* class providing local_moves / step ("None": not used)
          steps,                \* number of local-move steps applied so far
          visited_cities,
          unvisited_cities,
          total_distance,
          lower_bound_value,    \* twice the Python value
          current_shortest_in,
          current_shortest_out,
          aco,                  \* Atsp3Aco: pheromone matrix and the ants of the round
          outcome               \* what the last call did: operation, error, returned value

vars == <<gen, problem, imp, engine, steps, visited_cities, unvisited_cities, total_distance,
          lower_bound_value, current_shortest_in, current_shortest_out, aco, outcome>>

tourVars == <<problem, imp, engine, steps, visited_cities, unvisited_cities, total_distance,
              lower_bound_value, current_shortest_in, current_shortest_out, aco, outcome>>

(***************************************************************************)
(* Bounds of the model                                                     *)
(***************************************************************************)
MaxN == 4          \* largest n given to sparse_fisher_yates_iter
MaxDim == 4        \* largest problem dimension used for construction
MaxSeed == 3       \* distance matrices are generated for seeds 0..MaxSeed
MaxLocalDim == 6   \* largest problem dimension handed to the 3-opt engine
MaxShiftDim == 5   \* largest problem dimension handed to the shift-insert engine
MaxLocalSeed == 0  \* local moves run on the matrices of seeds 0..MaxLocalSeed
MaxSteps == 2      \* local-move steps applied to one tour
MaxBestDim == 7    \* largest problem dimension handed to local_search_best
MaxAcoSize == 5    \* ant-colony engine: largest dimension + ants_per_iteration
MaxRounds == 2     \* iterations of the ACO loop run on one tour
MaxPairAnts == 4   \* ant-colony engine: most ants per iteration on two cities

(***************************************************************************)
(* Python helpers                                                          *)
(***************************************************************************)
\* lst[k] for a Python list, negative k counting from the end
PyGet(lst, k) == IF k < 0 THEN lst[Len(lst) + k + 1] ELSE lst[k + 1]

\* lst[a:b] for 0 <= a and 0 <= b
PySlice(lst, a, b) ==
  LET hi == IF b > Len(lst) THEN Len(lst) ELSE b
  IN IF a >= hi THEN <<>> ELSE SubSeq(lst, a + 1, hi)

\* lst[a:]
PySliceFrom(lst, a) == PySlice(lst, a, Len(lst))

\* lst.index(x): position of the first occurrence
PyIndex(lst, x) == (CHOOSE k \in 1..Len(lst) : lst[k] = x /\ \A m \in 1..(k - 1) : lst[m] # x) - 1

\* lst after lst.pop(k), 0 <= k < len(lst)
PyPop(lst, k) == PySlice(lst, 0, k) \o PySliceFrom(lst, k + 1)

\* lst after lst.insert(k, x), 0 <= k
PyInsert(lst, k, x) == PySlice(lst, 0, k) \o <<x>> \o PySliceFrom(lst, k)

\* set of the elements of a list ("x in lst")
Elems(lst) == UNION {{l[k] : k \in 1..Len(l)} : l \in {lst}}

\* dict.get(k, default) for a dict modelled as a function
DictGet(d, k, default) == IF k \in DOMAIN d THEN d[k] ELSE default

\* d[k] = v for a dict modelled as a function
DictSet(d, k, v) == [x \in (DOMAIN d) \cup {k} |-> IF x = k THEN v ELSE d[x]]

EmptyDict == [x \in {} |-> 0]

SeqSum(s) ==
  LET RECURSIVE Go(_)
      Go(k) == IF k = 0 THEN 0 ELSE s[k] + Go(k - 1)
  IN Go(Len(s))

(***************************************************************************)
(* helpers/sparse_fisher_yates.py                                          *)
(***************************************************************************)
\* the loop body with "p[r] = i" in place of "p[r] = p.get(i, i)"
FYBodyNoGet(p, i, r) ==
  [value |-> DictGet(p, r, r),
   p     |-> IF i # r THEN DictSet(p, r, i) ELSE p]

\* the loop body yielding the draw itself instead of p.get(r, r)
FYBodyYieldDraw(p, i, r) ==
  [value |-> r,
   p     |-> IF i # r THEN DictSet(p, r, DictGet(p, i, i)) ELSE p]

\* One iteration of the loop body (lines 11-16) for loop index i and random
\* draw r: the value yielded and the dict afterwards.
FYBody(p, i, r) ==
  [value |-> DictGet(p, r, r),
   p     |-> IF i # r THEN DictSet(p, r, DictGet(p, i, i)) ELSE p]

\* The whole sequence yielded by sparse_fisher_yates_iter(n) when the
\* successive calls of random.randrange return draws[1], draws[2], ...
RECURSIVE FYRun(_, _, _, _)
FYRun(p, i, draws, k) ==
  IF i < 0 THEN <<>>
  ELSE LET b == FYBody(p, i, draws[k])
       IN <<b.value>> \o FYRun(b.p, i - 1, draws, k + 1)

sparse_fisher_yates_iter(n, draws) == FYRun(EmptyDict, n - 1, draws, 1)

\* the draw sequences random.randrange can produce from loop index i down
\* to 0: the draw made at loop index i is in [0, i]
RECURSIVE DrawsFrom(_)
DrawsFrom(i) ==
  IF i < 0 THEN {<<>>}
  ELSE {<<r>> \o t : r \in 0..i, t \in DrawsFrom(i - 1)}

DrawSeqs(n) == DrawsFrom(n - 1)

\* The generator object as the call returns it: no line of the body has run.
\* i is the loop index of the pass last begun (n before the first pass) and
\* r the draw of the pass the frame is suspended in, at the yield of line 13
\* (<<>> when it is not suspended in a pass); p is the dict of the frame.
GenInit(n) == [n |-> n, i |-> n, p |-> EmptyDict, r |-> <<>>, yielded |-> <<>>,
               draws |-> <<>>, exhausted |-> FALSE]

GenIdle == GenInit(0)

\* lines 15-16 of the pass the frame g is suspended in, which run when the
\* caller resumes the generator: the dict afterwards
FYResumed(g) == IF g.r = <<>> THEN g.p ELSE FYBody(g.p, g.i, g.r[1]).p

\* the frame g resumed and run up to the yield of the next pass, whose draw
\* is r: lines 15-16 of the suspended pass, then lines 10-13
FYAdvance(g, r) ==
  LET p == FYResumed(g)
  IN [g EXCEPT !.i = g.i - 1, !.p = p, !.r = <<r>>,
               !.yielded = Append(g.yielded, FYBody(p, g.i - 1, r).value),
               !.draws = Append(g.draws, r)]

\* the frame g resumed when no pass is left: lines 15-16 of the suspended
\* pass, then the loop ends and the generator raises StopIteration
FYFinish(g) == [g EXCEPT !.p = FYResumed(g), !.r = <<>>, !.exhausted = TRUE]

\* next(generator) returning a value: the frame is resumed and suspended
\* again at the yield of the next pass
FYNext(r) ==
  /\ ~gen.exhausted
  /\ gen.i >= 1
  /\ r \in 0..(gen.i - 1)
  /\ gen' = FYAdvance(gen, r)
  /\ UNCHANGED tourVars

\* next(generator) when no pass is left: StopIteration
FYStop ==
  /\ gen.i < 1
  /\ ~gen.exhausted
  /\ gen' = FYFinish(gen)
  /\ UNCHANGED tourVars

(***************************************************************************)
(* travelling_salesman.py: Problem                                         *)
(***************************************************************************)
\* [index for index, _ in sorted(enumerate(values), key=lambda x: x[1])]
\* sorted() is stable: ascending value, ties by ascending index.
SortedIndexes(values) ==
  LET n == Len(values)
      rank(k) == Cardinality({m \in 1..n : \/ values[m] < values[k]
                                           \/ (values[m] = values[k] /\ m < k)})
  IN [r \in 1..n |-> (CHOOSE k \in 1..n : rank(k) = r - 1) - 1]

Row(dm, c) == dm[c + 1]
Column(dm, c) == [k \in 1..Len(dm) |-> dm[k][c + 1]]

\* Problem._initialize_lower_bound with the last rank taken instead of the first
initialize_lower_bound_last(dm) ==
  LET n == Len(dm)
      so == [c \in 1..n |-> SortedIndexes(Row(dm, c - 1))]
      si == [c \in 1..n |-> SortedIndexes(Column(dm, c - 1))]
      raw == SeqSum([c \in 1..n |-> dm[c][so[c][n] + 1] + dm[si[c][n] + 1][c]])
  IN [shortest_out |-> so, shortest_in |-> si, lower_bound |-> raw]

\* Problem._initialize_lower_bound: fills shortest_out / shortest_in and
\* returns raw_lower_bound / 2 (stored doubled, i.e. raw_lower_bound)
initialize_lower_bound(dm) ==
  LET n == Len(dm)
      so == [c \in 1..n |-> SortedIndexes(Row(dm, c - 1))]
      si == [c \in 1..n |-> SortedIndexes(Column(dm, c - 1))]
      raw == SeqSum([c \in 1..n |-> dm[c][so[c][1] + 1] + dm[si[c][1] + 1][c]])
  IN [shortest_out |-> so, shortest_in |-> si, lower_bound |-> raw]

\* Problem.__init__
Problem(dm) ==
  LET lbi == initialize_lower_bound(dm)
  IN [dimension |-> Len(dm), distance_matrix |-> dm,
      shortest_out |-> lbi.shortest_out, shortest_in |-> lbi.shortest_in,
      lower_bound |-> lbi.lower_bound]

Cities(P) == 0..(P.dimension - 1)
D(P, a, b) == P.distance_matrix[a + 1][b + 1]

(***************************************************************************)
(* The bound-repair algorithm (_update_lower_bound).                       *)
(* A computation state is [lb, csi, cso, err]; err is TRUE once an index   *)
(* past the end of a neighbour list has been read (IndexError), and then   *)
(* csi/cso are the (in place mutated) lists at the time of the exception.  *)
(***************************************************************************)
\* "while lst[k] in bad: k += 1": the cursor where the loop stops; Len(lst)
\* when the read runs off the end of the list
RECURSIVE Scan(_, _, _)
Scan(lst, k, bad) ==
  IF k >= Len(lst) THEN k
  ELSE IF lst[k + 1] \in bad THEN Scan(lst, k + 1, bad) ELSE k

\* iteration order of a Python set of small non-negative ints: ascending
RECURSIVE SetIter(_)
SetIter(S) ==
  IF S = {} THEN <<>>
  ELSE LET m == CHOOSE x \in S : \A y \in S : x <= y
       IN <<m>> \o SetIter(S \ {m})

\* lines 116-130 / 245-259: repair of the outgoing slot of arc[1]
RepairOutOfAdded(P, arc, visited, u) ==
  LET a1 == arc[2]
      lst == P.shortest_out[a1 + 1]
      nso == lst[u.cso[a1 + 1] + 1]
      k == Scan(lst, u.cso[a1 + 1], Elems(visited))
      cso2 == [u.cso EXCEPT ![a1 + 1] = k]
  IN IF k >= P.dimension
     THEN [u EXCEPT !.cso = cso2, !.err = TRUE]
     ELSE [u EXCEPT !.cso = cso2,
                    !.lb = u.lb - D(P, a1, nso) + D(P, a1, lst[k + 1])]

\* lines 139-154 / 268-283: repair of the incoming slot of city 0
RepairInOfZero(P, arc, visited, u) ==
  LET lst == P.shortest_in[1]
      zsi == lst[u.csi[1] + 1]
      k == Scan(lst, u.csi[1], Elems(visited))
      csi2 == [u.csi EXCEPT ![1] = k]
  IN IF k >= P.dimension
     THEN [u EXCEPT !.csi = csi2, !.err = TRUE]
     ELSE [u EXCEPT !.csi = csi2,
                    !.lb = u.lb - D(P, zsi, 0) + D(P, lst[k + 1], 0)]

\* lines 160-181 / 289-310: the incoming slot of an unvisited city
RepairIn(P, arc, visited, city, u) ==
  LET lst == P.shortest_in[city + 1]
      isi == lst[u.csi[city + 1] + 1]
  IN IF u.err \/ isi # arc[1] THEN u
     ELSE LET k == Scan(lst, u.csi[city + 1] + 1, Elems(visited))
              csi2 == [u.csi EXCEPT ![city + 1] = k]
          IN IF k >= P.dimension
             THEN [u EXCEPT !.csi = csi2, !.err = TRUE]
             ELSE [u EXCEPT !.csi = csi2,
                            !.lb = u.lb - D(P, isi, city) + D(P, lst[k + 1], city)]

\* lines 185-207 / 314-336: the outgoing slot of an unvisited city
RepairOut(P, arc, visited, city, u) ==
  LET lst == P.shortest_out[city + 1]
      iso == lst[u.cso[city + 1] + 1]
  IN IF u.err \/ iso # arc[2] THEN u
     ELSE LET k == Scan(lst, u.cso[city + 1] + 1, Elems(visited) \ {0})
              cso2 == [u.cso EXCEPT ![city + 1] = k]
          IN IF k >= P.dimension
             THEN [u EXCEPT !.cso = cso2, !.err = TRUE]
             ELSE [u EXCEPT !.cso = cso2,
                            !.lb = u.lb - D(P, city, iso) + D(P, city, lst[k + 1])]

\* lines 157-207 / 286-336: "for city in self.unvisited_cities"
RECURSIVE RepairUnvisited(_, _, _, _, _)
RepairUnvisited(P, arc, visited, cities, u) ==
  IF cities = <<>> \/ u.err THEN u
  ELSE RepairUnvisited(P, arc, visited, Tail(cities),
         RepairOut(P, arc, visited, Head(cities),
           RepairIn(P, arc, visited, Head(cities), u)))

\* The part of _update_lower_bound shared by both revisions.  arc is
\* <<arc[0], arc[1]>> of the source; lastCity[nso] is the revision's test
\* "it is the last city" made on shortest_out[arc[1]][cso[arc[1]]] (nso).
UpdateLowerBound(P, lastCity, arc, visited, unvisited, lb, csi, cso) ==
  LET a0 == arc[1]
      a1 == arc[2]
      si == P.shortest_in[a1 + 1][csi[a1 + 1] + 1]
      so == P.shortest_out[a0 + 1][cso[a0 + 1] + 1]
      \* lb -= (sid + sod) / 2 ; lb += d
      u0 == [lb |-> lb - (D(P, si, a1) + D(P, a0, so)) + 2 * D(P, a0, a1),
             csi |-> csi, cso |-> cso, err |-> FALSE]
      nso == P.shortest_out[a1 + 1][cso[a1 + 1] + 1]
  IN IF lastCity[nso] THEN u0
     ELSE LET u1 == IF nso = a0 \/ nso = 0
                    THEN RepairOutOfAdded(P, arc, visited, u0) ELSE u0
              zsi == P.shortest_in[1][u1.csi[1] + 1]
          IN IF u1.err THEN u1
             ELSE IF Cardinality(unvisited) = 0 /\ zsi = a1 THEN u1
             ELSE LET u2 == IF zsi = a1
                            THEN RepairInOfZero(P, arc, visited, u1) ELSE u1
                  IN RepairUnvisited(P, arc, visited, SetIter(unvisited), u2)

\* NewLbConstructor._update_lower_bound
\* (line 113: "if len(self.unvisited_cities) < 1: return lb, csi, cso")
NewLbConstructor_update_lower_bound(P, arc, visited, unvisited, lb, csi, cso) ==
  LET lastCity == [nso \in Cities(P) |-> Cardinality(unvisited) < 1]
  IN UpdateLowerBound(P, lastCity, arc, visited, unvisited, lb, csi, cso)

\* Solution._update_lower_bound
\* (line 242: "if len(self.unvisited_cities) <= 1 and nso == 0: return ...")
Solution_update_lower_bound(P, arc, visited, unvisited, lb, csi, cso) ==
  LET lastCity == [nso \in Cities(P) |-> Cardinality(unvisited) <= 1 /\ nso = 0]
  IN UpdateLowerBound(P, lastCity, arc, visited, unvisited, lb, csi, cso)

\* self._update_lower_bound(...) of an object of class cls
CallUpdateLowerBound(P, cls, arc, visited, unvisited, lb, csi, cso) ==
  IF cls = "Solution"
  THEN Solution_update_lower_bound(P, arc, visited, unvisited, lb, csi, cso)
  ELSE NewLbConstructor_update_lower_bound(P, arc, visited, unvisited, lb, csi, cso)

(***************************************************************************)
(* Tour state.  A tour state S is the record of the fields of a solution   *)
(* object; a call returns the fields after the call, together with the     *)
(* exception it raised ("None" when it returned normally) and its value.   *)
(***************************************************************************)
None == <<>>            \* Python None
Some(x) == <<x>>        \* a Python number x

Self == [visited_cities |-> visited_cities,
         unvisited_cities |-> unvisited_cities,
         total_distance |-> total_distance,
         lower_bound_value |-> lower_bound_value,
         current_shortest_in |-> current_shortest_in,
         current_shortest_out |-> current_shortest_out]

Returned(S, value) == [self |-> S, err |-> "None", ret |-> value]
Raised(S, exception) == [self |-> S, err |-> exception, ret |-> None]

\* Problem.empty_solution / Solution.__init__
empty_solution(P) ==
  [visited_cities |-> <<0>>,
   unvisited_cities |-> 1..(P.dimension - 1),
   total_distance |-> 0,
   lower_bound_value |-> P.lower_bound,
   current_shortest_in |-> [c \in 1..P.dimension |-> 0],
   current_shortest_out |-> [c \in 1..P.dimension |-> 0]]

\* Solution.copy (lines 78-91): a new Solution is constructed from copies of
\* the list and the set and from the two numbers; Solution.__init__ sets the
\* cursor lists of the new object (lines 59-62)
copy(P, S) ==
  [visited_cities |-> S.visited_cities,
   unvisited_cities |-> S.unvisited_cities,
   total_distance |-> S.total_distance,
   lower_bound_value |-> S.lower_bound_value,
   current_shortest_in |-> [c \in 1..P.dimension |-> 0],
   current_shortest_out |-> [c \in 1..P.dimension |-> 0]]

\* Solution.is_feasible
is_feasible(S) == Cardinality(S.unvisited_cities) = 0

\* objective() of the first revision (travelling_salesman.py at the top level):
\* the distance whether or not the tour is feasible
objective_unconditional(S) == Some(S.total_distance)

\* Solution.objective
objective(S) == IF is_feasible(S) THEN Some(S.total_distance) ELSE None

\* Solution.add_moves / NewLbConstructor.add_moves / SimpleLb.add_moves:
\* the arcs <<source, dest>> yielded
add_moves(S) == {<<PyGet(S.visited_cities, -1), city>> : city \in S.unvisited_cities}

\* add() with set.discard in place of set.remove: a city that is not in
\* unvisited_cities is appended again and the call returns normally
add_discard(P, cls, S, arc) ==
  LET city_id == arc[2]
      visited == Append(S.visited_cities, city_id)
      unvisited == S.unvisited_cities \ {city_id}
      total == S.total_distance + D(P, arc[1], city_id)
      u == CallUpdateLowerBound(P, cls, arc, visited, unvisited, S.lower_bound_value,
                                S.current_shortest_in, S.current_shortest_out)
  IN IF city_id \notin S.unvisited_cities
     THEN Returned([S EXCEPT !.visited_cities = visited, !.total_distance = total], None)
     ELSE IF u.err
     THEN Raised([S EXCEPT !.visited_cities = visited,
                           !.unvisited_cities = unvisited,
                           !.total_distance = total,
                           !.current_shortest_in = u.csi,
                           !.current_shortest_out = u.cso], "IndexError")
     ELSE Returned([visited_cities |-> visited,
                    unvisited_cities |-> unvisited,
                    total_distance |-> IF Cardinality(unvisited) = 0
                                       THEN total + D(P, city_id, 0) ELSE total,
                    lower_bound_value |-> u.lb,
                    current_shortest_in |-> u.csi,
                    current_shortest_out |-> u.cso], None)

\* NewLbConstructor.add (lines 49-77) and Solution.add (lines 178-206): the
\* same statements, each calling its own _update_lower_bound.
\*   visited_cities.append(city_id) comes first, so it has happened when
\*   unvisited_cities.remove(city_id) raises KeyError;
\*   _update_lower_bound is given self.current_shortest_in/out themselves, so
\*   the cursors it moved stay moved when it raises IndexError, while
\*   lower_bound_value is not assigned and the closing edge is not added.
add(P, cls, S, arc) ==
  LET city_id == arc[2]
      visited == Append(S.visited_cities, city_id)
      unvisited == S.unvisited_cities \ {city_id}
      total == S.total_distance + D(P, arc[1], city_id)
      u == CallUpdateLowerBound(P, cls, arc, visited, unvisited, S.lower_bound_value,
                                S.current_shortest_in, S.current_shortest_out)
  IN IF city_id \notin S.unvisited_cities
     THEN Raised([S EXCEPT !.visited_cities = visited], "KeyError")
     ELSE IF u.err
     THEN Raised([S EXCEPT !.visited_cities = visited,
                           !.unvisited_cities = unvisited,
                           !.total_distance = total,
                           !.current_shortest_in = u.csi,
                           !.current_shortest_out = u.cso], "IndexError")
     ELSE Returned([visited_cities |-> visited,
                    unvisited_cities |-> unvisited,
                    total_distance |-> IF Cardinality(unvisited) = 0
                                       THEN total + D(P, city_id, 0) ELSE total,
                    lower_bound_value |-> u.lb,
                    current_shortest_in |-> u.csi,
                    current_shortest_out |-> u.cso], None)

NewLbConstructor_add(P, S, arc) == add(P, "NewLbConstructor", S, arc)

Solution_add(P, S, arc) == add(P, "Solution", S, arc)

\* SimpleLb.add (lines 49-68)
SimpleLb_add(P, S, arc) ==
  LET city_id == arc[2]
      visited == Append(S.visited_cities, city_id)
      unvisited == S.unvisited_cities \ {city_id}
      distance == D(P, arc[1], city_id)
      closing == IF Cardinality(unvisited) = 0 THEN D(P, city_id, 0) ELSE 0
  IN IF city_id \notin S.unvisited_cities
     THEN Raised([S EXCEPT !.visited_cities = visited], "KeyError")
     ELSE Returned([S EXCEPT !.visited_cities = visited,
                             !.unvisited_cities = unvisited,
                             !.total_distance = S.total_distance + distance + closing,
                             !.lower_bound_value =
                                 S.lower_bound_value + 2 * distance + 2 * closing],
                   None)

\* lower_bound_incr_add handing its own cursor lists to _update_lower_bound
lower_bound_incr_add_nocopy(P, cls, S, arc) ==
  LET u == CallUpdateLowerBound(P, cls, arc, S.visited_cities, S.unvisited_cities,
                                S.lower_bound_value,
                                S.current_shortest_in, S.current_shortest_out)
      S2 == [S EXCEPT !.current_shortest_in = u.csi, !.current_shortest_out = u.cso]
  IN IF u.err THEN Raised(S2, "IndexError")
     ELSE Returned(S2, Some(u.lb - S.lower_bound_value))

\* NewLbConstructor.lower_bound_incr_add (lines 219-237) and
\* Solution.lower_bound_incr_add (lines 408-426): _update_lower_bound is run
\* on copies of the cursor lists, with self.visited_cities and
\* self.unvisited_cities as they are before the component is added.
lower_bound_incr_add(P, cls, S, arc) ==
  LET u == CallUpdateLowerBound(P, cls, arc, S.visited_cities, S.unvisited_cities,
                                S.lower_bound_value,
                                S.current_shortest_in, S.current_shortest_out)
  IN IF u.err THEN Raised(S, "IndexError")
     ELSE Returned(S, Some(u.lb - S.lower_bound_value))

NewLbConstructor_lower_bound_incr_add(P, S, arc) ==
  lower_bound_incr_add(P, "NewLbConstructor", S, arc)

Solution_lower_bound_incr_add(P, S, arc) ==
  lower_bound_incr_add(P, "Solution", S, arc)

\* SimpleLb.lower_bound_incr_add (lines 78-84)
SimpleLb_lower_bound_incr_add(P, S, arc) == Returned(S, Some(2 * D(P, arc[1], arc[2])))

Imps == {"NewLbConstructor", "Solution", "SimpleLb"}

\* dispatch on the class of the solution object
CallAdd(P, cls, S, arc) ==
  CASE cls = "NewLbConstructor" -> NewLbConstructor_add(P, S, arc)
    [] cls = "Solution" -> Solution_add(P, S, arc)
    [] cls = "SimpleLb" -> SimpleLb_add(P, S, arc)

CallLowerBoundIncrAdd(P, cls, S, arc) ==
  CASE cls = "NewLbConstructor" -> NewLbConstructor_lower_bound_incr_add(P, S, arc)
    [] cls = "Solution" -> Solution_lower_bound_incr_add(P, S, arc)
    [] cls = "SimpleLb" -> SimpleLb_lower_bound_incr_add(P, S, arc)

(***************************************************************************)
(* atsp_3opt.py                                                            *)
(***************************************************************************)
\* range(a, b) as a list
PyRange(a, b) == IF a >= b THEN <<>> ELSE [k \in 1..(b - a) |-> a + k - 1]

\* concatenation of the lists yielded by the iterations of a for loop
\* (the list of lists is evaluated once, as l)
Flatten(lists) ==
  CHOOSE flat \in {LET upTo[n \in 0..Len(l)] ==
                        IF n = 0 THEN <<>> ELSE upTo[n - 1] \o l[n]
                    IN upTo[Len(l)] : l \in {lists}} : TRUE

LocalMove3Opt(X1, X2, Y1, Y2, Z1, Z2) ==
  [X1 |-> X1, X2 |-> X2, Y1 |-> Y1, Y2 |-> Y2, Z1 |-> Z1, Z2 |-> Z2]

\* Atsp3Opt.local_moves with the last cut running up to the closing edge:
\* k in range(j + 2, dimension) and Z2 = visited_cities[(k + 1) % dimension]
Atsp3Opt_local_moves_closing(P, S) ==
  LET dimension == P.dimension
      v == S.visited_cities
      forK(i, j) ==
        LET one(k) == <<LocalMove3Opt(PyGet(v, i), PyGet(v, i + 1),
                                      PyGet(v, j), PyGet(v, j + 1),
                                      PyGet(v, k), PyGet(v, (k + 1) % dimension))>>
            ks == PyRange(j + 2, dimension)
        IN Flatten([x \in 1..Len(ks) |-> one(ks[x])])
      forJ(i) ==
        LET js == PyRange(i + 2, dimension - 2)
        IN Flatten([x \in 1..Len(js) |-> forK(i, js[x])])
      is == PyRange(0, dimension - 4)
  IN Flatten([x \in 1..Len(is) |-> forJ(is[x])])

\* Atsp3Opt.local_moves (lines 26-47): the moves in the order they are yielded
Atsp3Opt_local_moves(P, S) ==
  LET dimension == P.dimension
      v == S.visited_cities
      forK(i, j) ==
        LET one(k) == <<LocalMove3Opt(PyGet(v, i), PyGet(v, i + 1),
                                      PyGet(v, j), PyGet(v, j + 1),
                                      PyGet(v, k), PyGet(v, k + 1))>>
            ks == PyRange(j + 2, dimension - 1)
        IN Flatten([x \in 1..Len(ks) |-> one(ks[x])])
      forJ(i) ==
        LET js == PyRange(i + 2, dimension - 3)
        IN Flatten([x \in 1..Len(js) |-> forK(i, js[x])])
      is == PyRange(0, dimension - 5)
  IN Flatten([x \in 1..Len(is) |-> forJ(is[x])])

\* objective_incr_local with the third added edge taken in the direction
\* X2 -> Z1, as if the distances were symmetric
Atsp3Opt_objective_incr_local_sym(P, S, lmove) ==
  LET add_distance == D(P, lmove.X1, lmove.Y2) + D(P, lmove.Y1, lmove.Z2)
                        + D(P, lmove.X2, lmove.Z1)
      del_distance == D(P, lmove.X1, lmove.X2) + D(P, lmove.Y1, lmove.Y2)
                        + D(P, lmove.Z1, lmove.Z2)
  IN del_distance - add_distance

\* Atsp3Opt.objective_incr_local (lines 129-149)
Atsp3Opt_objective_incr_local(P, S, lmove) ==
  LET add_distance == D(P, lmove.X1, lmove.Y2) + D(P, lmove.Y1, lmove.Z2)
                        + D(P, lmove.Z1, lmove.X2)
      del_distance == D(P, lmove.X1, lmove.X2) + D(P, lmove.Y1, lmove.Y2)
                        + D(P, lmove.Z1, lmove.Z2)
  IN del_distance - add_distance

\* Atsp3Opt.step exchanging the two segments with each of them reversed
Atsp3Opt_step_reversed(P, S, lmove) ==
  LET v == S.visited_cities
      rev(seg) == [x \in 1..Len(seg) |-> seg[Len(seg) + 1 - x]]
      distance_difference == Atsp3Opt_objective_incr_local(P, S, lmove)
  IN Returned([S EXCEPT
       !.visited_cities =
           PySlice(v, 0, PyIndex(v, lmove.X1) + 1)
             \o rev(PySlice(v, PyIndex(v, lmove.Y2), PyIndex(v, lmove.Z1) + 1))
             \o rev(PySlice(v, PyIndex(v, lmove.X2), PyIndex(v, lmove.Y1) + 1))
             \o PySliceFrom(v, PyIndex(v, lmove.Z2)),
       !.total_distance = S.total_distance - distance_difference,
       !.lower_bound_value = S.lower_bound_value - 2 * distance_difference], None)

\* Atsp3Opt.step with the difference added instead of subtracted
Atsp3Opt_step_plus(P, S, lmove) ==
  LET v == S.visited_cities
      distance_difference == Atsp3Opt_objective_incr_local(P, S, lmove)
  IN Returned([S EXCEPT
       !.visited_cities =
           PySlice(v, 0, PyIndex(v, lmove.X1) + 1)
             \o PySlice(v, PyIndex(v, lmove.Y2), PyIndex(v, lmove.Z1) + 1)
             \o PySlice(v, PyIndex(v, lmove.X2), PyIndex(v, lmove.Y1) + 1)
             \o PySliceFrom(v, PyIndex(v, lmove.Z2)),
       !.total_distance = S.total_distance + distance_difference,
       !.lower_bound_value = S.lower_bound_value + 2 * distance_difference], None)

\* Atsp3Opt.step (lines 95-127)
Atsp3Opt_step(P, S, lmove) ==
  LET v == S.visited_cities
      borders == <<lmove.X1, lmove.X2, lmove.Y1, lmove.Y2, lmove.Z1, lmove.Z2>>
      indexes == [b \in 1..6 |-> PyIndex(v, borders[b])]
      updated_visited_cities ==
        PySlice(v, 0, PyGet(indexes, 0) + 1)
          \o PySlice(v, PyGet(indexes, 3), PyGet(indexes, 4) + 1)
          \o PySlice(v, PyGet(indexes, 1), PyGet(indexes, 2) + 1)
          \o PySliceFrom(v, PyGet(indexes, 5))
      distance_difference == Atsp3Opt_objective_incr_local(P, S, lmove)
  IN Returned([S EXCEPT
       !.visited_cities = updated_visited_cities,
       !.total_distance = S.total_distance - distance_difference,
       !.lower_bound_value = S.lower_bound_value - 2 * distance_difference], None)

(***************************************************************************)
(* local_solvers/atsp_shift_insert.py                                      *)
(***************************************************************************)
LocalMoveShiftInsert(city_index, destination_index) ==
  [city_index |-> city_index, destination_index |-> destination_index]

\* AtspShiftInsert._is_move_valid (lines 24-34)
is_move_valid(P, city_index, dest) ==
  /\ city_index # dest
  /\ (city_index - 1) % P.dimension # dest
  /\ (city_index - 2) % P.dimension # dest

\* AtspShiftInsert.local_moves (lines 36-46): the moves in the order yielded
AtspShiftInsert_local_moves(P, S) ==
  LET forDest(city_id) ==
        LET one(destination) ==
              IF is_move_valid(P, city_id, destination)
              THEN <<LocalMoveShiftInsert(city_id, destination)>> ELSE <<>>
            destinations == PyRange(0, P.dimension)
        IN Flatten([x \in 1..Len(destinations) |-> one(destinations[x])])
      city_ids == PyRange(0, P.dimension)
  IN Flatten([x \in 1..Len(city_ids) |-> forDest(city_ids[x])])

\* AtspShiftInsert._calculate_local_move_distance (lines 107-149)
calculate_local_move_distance(P, city, prev_city, next_city, dest, prev_dest, total) ==
  total - D(P, prev_city, city) - D(P, city, next_city)
    + D(P, prev_city, next_city) - D(P, prev_dest, dest)
    + D(P, city, dest) + D(P, prev_dest, city)

\* AtspShiftInsert.objective_incr_local (lines 151-172)
AtspShiftInsert_objective_incr_local(P, S, lmove) ==
  LET v == S.visited_cities
      city == PyGet(v, lmove.city_index)
      prev_city == PyGet(v, (lmove.city_index - 1) % P.dimension)
      next_city == PyGet(v, (lmove.city_index + 1) % P.dimension)
      dest == PyGet(v, lmove.destination_index)
      prev_dest == PyGet(v, (lmove.destination_index - 1) % P.dimension)
      result == calculate_local_move_distance(P, city, prev_city, next_city, dest,
                                              prev_dest, S.total_distance)
  IN S.total_distance - result

\* AtspShiftInsert.step (lines 80-105); "self.lower_bound_value = -1"
AtspShiftInsert_step(P, S, lmove) ==
  LET v == S.visited_cities
      city == PyGet(v, lmove.city_index)
      prev_city == PyGet(v, (lmove.city_index - 1) % P.dimension)
      next_city == PyGet(v, (lmove.city_index + 1) % P.dimension)
      dest == PyGet(v, lmove.destination_index)
      prev_dest == PyGet(v, lmove.destination_index - 1)
  IN Returned([S EXCEPT
       !.lower_bound_value = 2 * (-1),
       !.total_distance =
           calculate_local_move_distance(P, city, prev_city, next_city, dest,
                                         prev_dest, S.total_distance),
       !.visited_cities =
           PyInsert(PyPop(v, lmove.city_index), lmove.destination_index, city)],
     None)

Engines == {"Atsp3Opt", "AtspShiftInsert"}

\* dispatch on the class of the solution object
\* travelling_salesman.py: class LocalMove
LocalMove(city_id, destination_index) ==
  [city_id |-> city_id, destination_index |-> destination_index]

\* Solution._is_move_valid (travelling_salesman.py lines 125-135)
Solution_is_move_valid(P, city_index, dest) ==
  /\ city_index # dest
  /\ (city_index - 1) % P.dimension # dest
  /\ (city_index - 2) % P.dimension # dest

\* Solution.local_moves (lines 137-146): the moves in the order yielded
Solution_local_moves(P, S) ==
  LET forDest(city_id) ==
        LET one(destination) ==
              IF Solution_is_move_valid(P, city_id, destination)
              THEN <<LocalMove(city_id, destination)>> ELSE <<>>
            destinations == PyRange(0, P.dimension)
        IN Flatten([x \in 1..Len(destinations) |-> one(destinations[x])])
      city_ids == PyRange(0, P.dimension)
  IN Flatten([x \in 1..Len(city_ids) |-> forDest(city_ids[x])])

\* Solution.step (lines 340-390).  The city is looked up by its id
\* (ValueError when it is not in the tour), visited_cities[city_index + 1]
\* and visited_cities[destination_index] raise IndexError past the end of
\* the list, all before anything is assigned.  The six distances are read at
\* row or column city_index, the position of the city, and half of each is
\* added to or taken from lower_bound_value; total_distance is left as it is.
Solution_step(P, S, lmove) ==
  LET v == S.visited_cities
      city_index == PyIndex(v, lmove.city_id)
      prev_city == PyGet(v, city_index - 1)
      next_city == PyGet(v, city_index + 1)
      dest_city == PyGet(v, lmove.destination_index)
      prev_dest == PyGet(v, lmove.destination_index - 1)
  IN IF lmove.city_id \notin Elems(v) THEN Raised(S, "ValueError")
     ELSE IF city_index + 1 >= Len(v) THEN Raised(S, "IndexError")
     ELSE IF lmove.destination_index >= Len(v) THEN Raised(S, "IndexError")
     ELSE Returned([S EXCEPT
            !.lower_bound_value =
                S.lower_bound_value
                  - D(P, prev_city, city_index) - D(P, city_index, next_city)
                  + D(P, prev_city, next_city) - D(P, prev_dest, dest_city)
                  + D(P, city_index, dest_city) + D(P, prev_dest, city_index),
            !.visited_cities =
                PyInsert(PyPop(v, city_index), lmove.destination_index,
                         PyGet(v, city_index))],
          None)

\* Solution.objective_incr_local (lines 392-398)
Solution_objective_incr_local(P, S, lmove) == Raised(S, "NotImplementedError")

CallLocalMoves(P, cls, S) ==
  CASE cls = "Atsp3Opt" -> Atsp3Opt_local_moves(P, S)
    [] cls = "AtspShiftInsert" -> AtspShiftInsert_local_moves(P, S)
    [] cls = "Solution" -> Solution_local_moves(P, S)

CallObjectiveIncrLocal(P, cls, S, lmove) ==
  CASE cls = "Atsp3Opt" -> Atsp3Opt_objective_incr_local(P, S, lmove)
    [] cls = "AtspShiftInsert" -> AtspShiftInsert_objective_incr_local(P, S, lmove)

CallStep(P, cls, S, lmove) ==
  CASE cls = "Atsp3Opt" -> Atsp3Opt_step(P, S, lmove)
    [] cls = "AtspShiftInsert" -> AtspShiftInsert_step(P, S, lmove)
    [] cls = "Solution" -> Solution_step(P, S, lmove)

\* all orders in which the cities of S can be appended
RECURSIVE Orders(_)
Orders(S) ==
  IF S = {} THEN {<<>>}
  ELSE UNION {{<<c>> \o t : t \in Orders(S \ {c})} : c \in S}

(***************************************************************************)
(* Inputs                                                                  *)
(***************************************************************************)
\* the 4-city instance of the specification's scenario
SpecExample == << <<0, 1, 2, 3>>, <<1, 0, 4, 5>>, <<2, 4, 0, 6>>, <<3, 5, 6, 0>> >>

\* asymmetric n x n matrices with off-diagonal distances 1..5 and a given
\* diagonal (0, or a value larger than every distance, as in ATSP files)
MatrixOf(n, s, diag) ==
  [i \in 1..n |-> [j \in 1..n |->
     IF i = j THEN diag ELSE 1 + ((7 * s + 3 * i + 5 * j + (s + 1) * i * j) % 5)]]

Diagonals == {0, 9}

Matrices ==
  {MatrixOf(n, s, diag) : n \in 2..MaxDim, s \in 0..MaxSeed, diag \in Diagonals}
    \cup {SpecExample}

(***************************************************************************)
(* Construction: the state machine of one solution object                  *)
(***************************************************************************)
NoCall == [op |-> "empty_solution", arg |-> <<>>, err |-> "None", ret |-> None]

\* the solution object is not an Atsp3Aco
NoAco == [phase |-> "none"]

SetSelf(S) ==
  /\ visited_cities' = S.visited_cities
  /\ unvisited_cities' = S.unvisited_cities
  /\ total_distance' = S.total_distance
  /\ lower_bound_value' = S.lower_bound_value
  /\ current_shortest_in' = S.current_shortest_in
  /\ current_shortest_out' = S.current_shortest_out

SelfIs(S) ==
  /\ visited_cities = S.visited_cities
  /\ unvisited_cities = S.unvisited_cities
  /\ total_distance = S.total_distance
  /\ lower_bound_value = S.lower_bound_value
  /\ current_shortest_in = S.current_shortest_in
  /\ current_shortest_out = S.current_shortest_out

Init ==
  /\ gen = GenIdle
  /\ aco = NoAco
  /\ \E dm \in Matrices : problem = Problem(dm)
  /\ imp \in Imps
  /\ engine = "None"
  /\ steps = 0
  /\ SelfIs(empty_solution(problem))
  /\ outcome = NoCall

\* solution.add(Component(visited_cities[-1], city)), for any city of the problem
Add(city) ==
  /\ outcome.err = "None"
  /\ LET arc == <<PyGet(visited_cities, -1), city>>
         r == CallAdd(problem, imp, Self, arc)
     IN /\ SetSelf(r.self)
        /\ outcome' = [op |-> "add", arg |-> arc, err |-> r.err, ret |-> r.ret]
  /\ UNCHANGED <<gen, aco, problem, imp, engine, steps>>

\* solution.lower_bound_incr_add(component) for a component of add_moves()
LowerBoundIncrAdd(arc) ==
  /\ outcome.err = "None"
  /\ arc \in add_moves(Self)
  /\ LET r == CallLowerBoundIncrAdd(problem, imp, Self, arc)
     IN /\ SetSelf(r.self)
        /\ outcome' = [op |-> "lower_bound_incr_add", arg |-> arc,
                       err |-> r.err, ret |-> r.ret]
  /\ UNCHANGED <<gen, aco, problem, imp, engine, steps>>

\* solution.objective()
Objective ==
  /\ outcome.err = "None"
  /\ outcome' = [op |-> "objective", arg |-> <<>>, err |-> "None",
                 ret |-> objective(Self)]
  /\ UNCHANGED <<gen, aco, problem, imp, engine, steps, visited_cities, unvisited_cities, total_distance,
                 lower_bound_value, current_shortest_in, current_shortest_out>>

Next ==
  \/ \E city \in Cities(problem) : Add(city)
  \/ \E arc \in Cities(problem) \X Cities(problem) : LowerBoundIncrAdd(arc)
  \/ Objective

Spec == Init /\ [][Next]_vars

(***************************************************************************)
(* The permutation generator on its own                                    *)
(***************************************************************************)
InitFY ==
  /\ \E n \in 0..MaxN : gen = GenInit(n)
  /\ aco = NoAco
  /\ problem = Problem(SpecExample)
  /\ imp = "Solution"
  /\ engine = "None"
  /\ steps = 0
  /\ SelfIs(empty_solution(problem))
  /\ outcome = NoCall

NextFY ==
  \/ \E r \in 0..MaxN : FYNext(r)
  \/ FYStop

SpecFY == InitFY /\ [][NextFY]_vars

(***************************************************************************)
(* Local search: a feasible tour handed to a local-move engine             *)
(***************************************************************************)
\* the problem dimensions an engine is run on: the 3-opt loops of local_moves
\* yield nothing below dimension 6, shift-insert has moves from dimension 4 on
LocalDims(e) == IF e = "Atsp3Opt" THEN 6..MaxLocalDim ELSE 4..MaxShiftDim

LocalMatrices(e) == {MatrixOf(n, s, 0) : n \in LocalDims(e), s \in 0..MaxLocalSeed}

\* the tour state after adding the cities of order one by one to S
RECURSIVE Constructed(_, _, _)
Constructed(P, S, order) ==
  IF order = <<>> THEN S
  ELSE Constructed(P,
         NewLbConstructor_add(P, S, <<PyGet(S.visited_cities, -1), Head(order)>>).self,
         Tail(order))

InitLocal ==
  /\ gen = GenIdle
  /\ aco = NoAco
  /\ engine \in Engines
  /\ \E dm \in LocalMatrices(engine) : problem = Problem(dm)
  /\ imp = "NewLbConstructor"
  /\ steps = 0
  /\ \E order \in Orders(Cities(problem) \ {0}) :
       SelfIs(Constructed(problem, empty_solution(problem), order))
  /\ outcome = NoCall

\* solution.step(lmove)
Step(lmove) ==
  /\ outcome.err = "None"
  /\ steps < MaxSteps
  /\ LET r == CallStep(problem, engine, Self, lmove)
     IN /\ SetSelf(r.self)
        /\ outcome' = [op |-> "step", arg |-> lmove, err |-> r.err, ret |-> r.ret]
  /\ steps' = steps + 1
  /\ UNCHANGED <<gen, aco, problem, imp, engine>>

\* the moves handed to step are those yielded by solution.local_moves()
NextLocal ==
  \E lmove \in Elems(CallLocalMoves(problem, engine, Self)) : Step(lmove)

SpecLocal == InitLocal /\ [][NextLocal]_vars

(***************************************************************************)
(* The local moves of the plain Solution class (travelling_salesman.py)    *)
(***************************************************************************)
\* the tour state after the adds of order, or the first add that raised
RECURSIVE AddAll(_, _, _, _)
AddAll(P, cls, S, order) ==
  IF order = <<>> THEN Returned(S, None)
  ELSE LET r == CallAdd(P, cls, S, <<PyGet(S.visited_cities, -1), Head(order)>>)
       IN IF r.err # "None" THEN r ELSE AddAll(P, cls, r.self, Tail(order))

\* a Solution, partial or feasible, built by adds none of which raised
InitSolutionLocal ==
  /\ gen = GenIdle
  /\ aco = NoAco
  /\ engine = "Solution"
  /\ \E dm \in LocalMatrices("AtspShiftInsert") \cup {SpecExample} : problem = Problem(dm)
  /\ imp = "Solution"
  /\ steps = 0
  /\ \E cities \in SUBSET (Cities(problem) \ {0}) : \E order \in Orders(cities) :
     \E r \in {AddAll(problem, imp, empty_solution(problem), order)} :
       /\ r.err = "None"
       /\ SelfIs(r.self)
  /\ outcome = NoCall

\* solution.objective_incr_local(lmove) on a Solution
SolutionObjectiveIncrLocal(lmove) ==
  /\ outcome.err = "None"
  /\ engine = "Solution"
  /\ LET r == Solution_objective_incr_local(problem, Self, lmove)
     IN outcome' = [op |-> "objective_incr_local", arg |-> lmove, err |-> r.err,
                    ret |-> r.ret]
  /\ UNCHANGED <<gen, aco, problem, imp, engine, steps, visited_cities, unvisited_cities,
                 total_distance, lower_bound_value, current_shortest_in,
                 current_shortest_out>>

NextSolutionLocal ==
  \/ \E lmove \in Elems(CallLocalMoves(problem, engine, Self)) : Step(lmove)
  \/ \E lmove \in Elems(CallLocalMoves(problem, engine, Self)) :
       SolutionObjectiveIncrLocal(lmove)

SpecSolutionLocal == InitSolutionLocal /\ [][NextSolutionLocal]_vars

(***************************************************************************)
(* greedy_construction (solvers.py): one action per iteration of its       *)
(* while loop                                                              *)
(***************************************************************************)
\* the components of add_moves() in the order they are yielded
add_moves_list(S) ==
  LET cities == SetIter(S.unvisited_cities)
  IN [k \in 1..Len(cities) |-> <<PyGet(S.visited_cities, -1), cities[k]>>]

\* the scan with "if increment > best_increment": the largest score wins
best_component_largest(increments) ==
  CHOOSE k \in 1..Len(increments) :
    /\ \A j \in 1..Len(increments) : increments[k] >= increments[j]
    /\ \A j \in 1..(k - 1) : increments[j] < increments[k]

\* lines 32-44: the position of the component kept by the scan, the first one
\* whose increment no other one undercuts ("if increment < best_increment")
best_component(increments) ==
  CHOOSE k \in 1..Len(increments) :
    /\ \A j \in 1..Len(increments) : increments[k] <= increments[j]
    /\ \A j \in 1..(k - 1) : increments[j] > increments[k]

\* one iteration of the while loop of greedy_construction: score every
\* component, add the best one.  An exception of lower_bound_incr_add or of
\* add leaves the function.
greedy_iteration(P, cls, S) ==
  LET components == add_moves_list(S)
      \* (the list of scores is evaluated once, as scored)
      iteration(scored) ==
        LET increments == [k \in 1..Len(scored) |-> scored[k].ret[1]]
            best == components[best_component(increments)]
        IN IF \E k \in 1..Len(scored) : scored[k].err # "None"
           THEN {[self |-> S, err |-> "IndexError", arg |-> <<>>, ret |-> None]}
           ELSE {[self |-> added.self, err |-> added.err, arg |-> best,
                  ret |-> Some(increments[best_component(increments)])]
                   : added \in {CallAdd(P, cls, S, best)}}
  IN CHOOSE result \in
       UNION {iteration(scored) :
                scored \in {[k \in 1..Len(components) |->
                               CallLowerBoundIncrAdd(P, cls, S, components[k])]}} : TRUE

GreedyIteration ==
  /\ outcome.err = "None"
  /\ unvisited_cities # {}
  /\ \E r \in {greedy_iteration(problem, imp, Self)} :
       /\ SetSelf(r.self)
       /\ outcome' = [op |-> "greedy_construction", arg |-> r.arg,
                      err |-> r.err, ret |-> r.ret]
  /\ UNCHANGED <<gen, aco, problem, imp, engine, steps>>

NextGreedy == GreedyIteration

SpecGreedy == Init /\ [][NextGreedy]_vars

(***************************************************************************)
(* local_search_best (solvers.py) with the 3-opt engine: one action per    *)
(* iteration of its while loop, one for its return                         *)
(***************************************************************************)
\* a scan that keeps the first move drawn, whatever its increment
best_local_moves_first(P, e, S) == Elems(CallLocalMoves(P, e, S))

\* lines 208-216: the moves the scan over random_local_moves_wor() can end
\* with.  The scan keeps the first move of the random order whose increment
\* no other move exceeds, and every order is possible.
best_local_moves(P, e, S) ==
  UNION {{m \in moves :
            \A m2 \in moves : CallObjectiveIncrLocal(P, e, S, m)
                                >= CallObjectiveIncrLocal(P, e, S, m2)}
           : moves \in {Elems(CallLocalMoves(P, e, S))}}

\* lines 207-225: the scan ended with best_move and best_increment > 0
LocalSearchBestStep ==
  /\ outcome.op # "return"
  /\ \E best \in {best_local_moves(problem, engine, Self)} :
       \E best_move \in best :
         /\ CallObjectiveIncrLocal(problem, engine, Self, best_move) > 0
         /\ \E r \in {CallStep(problem, engine, Self, best_move)} :
              /\ SetSelf(r.self)
              /\ outcome' = [op |-> "local_search_best", arg |-> best_move,
                             err |-> r.err, ret |-> r.ret]
  /\ steps' = steps + 1
  /\ UNCHANGED <<gen, aco, problem, imp, engine>>

\* lines 207, 218-219, 227: no move is left to draw, or best_increment <= 0
LocalSearchBestReturn ==
  /\ outcome.op # "return"
  /\ \E best \in {best_local_moves(problem, engine, Self)} :
       \/ best = {}
       \/ \E best_move \in best :
            CallObjectiveIncrLocal(problem, engine, Self, best_move) <= 0
  /\ outcome' = [op |-> "return", arg |-> <<>>, err |-> "None", ret |-> None]
  /\ UNCHANGED <<gen, aco, problem, imp, engine, steps, visited_cities, unvisited_cities,
                 total_distance, lower_bound_value, current_shortest_in,
                 current_shortest_out>>

InitBest ==
  /\ gen = GenIdle
  /\ aco = NoAco
  /\ engine = "Atsp3Opt"
  /\ \E n \in 6..MaxBestDim, s \in 0..MaxLocalSeed : problem = Problem(MatrixOf(n, s, 0))
  /\ imp = "NewLbConstructor"
  /\ steps = 0
  /\ \E order \in Orders(Cities(problem) \ {0}) :
       SelfIs(Constructed(problem, empty_solution(problem), order))
  /\ outcome = NoCall

NextBest == LocalSearchBestStep \/ LocalSearchBestReturn

\* the loop is sequential code: it keeps running until it returns
SpecBest == InitBest /\ [][NextBest]_vars /\ WF_vars(NextBest)

(***************************************************************************)
(* random_local_moves_wor (atsp_3opt.py, atsp_shift_insert.py): the list   *)
(* of local moves read through sparse_fisher_yates_iter.  outcome.ret is   *)
(* the list of the moves yielded so far.                                   *)
(***************************************************************************)
MaxWorMoves == 4   \* longest list of local moves read in random order

\* the generator made for one move fewer than the list holds
wor_indexes_short(local_moves) == GenInit(Len(local_moves) - 1)

\* "random_indexes = sparse_fisher_yates_iter(len(local_moves))"
wor_indexes(local_moves) == GenInit(Len(local_moves))

\* "for i in random_indexes: yield local_moves[i]", one move yielded
WorNext(r) ==
  /\ outcome.err = "None"
  /\ ~gen.exhausted
  /\ gen.i >= 1
  /\ r \in 0..(gen.i - 1)
  /\ \E local_moves \in {CallLocalMoves(problem, engine, Self)} :
     \E g \in {FYAdvance(gen, r)} :
     \E i \in {PyGet(g.yielded, -1)} :
       /\ gen' = g
       /\ outcome' = IF i < Len(local_moves) /\ i >= -Len(local_moves)
                     THEN [op |-> "random_local_moves_wor", arg |-> <<>>,
                           err |-> "None",
                           ret |-> Append(outcome.ret, PyGet(local_moves, i))]
                     ELSE [op |-> "random_local_moves_wor", arg |-> <<>>,
                           err |-> "IndexError", ret |-> outcome.ret]
  /\ UNCHANGED <<aco, problem, imp, engine, steps, visited_cities, unvisited_cities,
                 total_distance, lower_bound_value, current_shortest_in,
                 current_shortest_out>>

\* the generator of indexes is exhausted: the loop, and the iteration, end
WorStop ==
  /\ outcome.err = "None"
  /\ gen.i < 1
  /\ ~gen.exhausted
  /\ gen' = FYFinish(gen)
  /\ outcome' = [outcome EXCEPT !.op = "StopIteration"]
  /\ UNCHANGED <<aco, problem, imp, engine, steps, visited_cities, unvisited_cities,
                 total_distance, lower_bound_value, current_shortest_in,
                 current_shortest_out>>

\* the problem dimensions on which an engine has between 1 and MaxWorMoves
\* local moves (their number depends on the dimension only)
WorDims(e) ==
  {n \in 4..MaxBestDim :
     \E P \in {Problem(MatrixOf(n, 0, 0))} :
       Len(CallLocalMoves(P, e, Constructed(P, empty_solution(P),
                                            [k \in 1..(n - 1) |-> k])))
         \in 1..MaxWorMoves}

InitWor ==
  /\ aco = NoAco
  /\ engine \in Engines
  /\ \E n \in WorDims(engine) : problem = Problem(MatrixOf(n, 0, 0))
  /\ imp = "NewLbConstructor"
  /\ steps = 0
  /\ \E order \in Orders(Cities(problem) \ {0}) :
       SelfIs(Constructed(problem, empty_solution(problem), order))
  /\ gen = wor_indexes(CallLocalMoves(problem, engine, Self))
  /\ outcome = [op |-> "random_local_moves_wor", arg |-> <<>>, err |-> "None",
                ret |-> <<>>]

NextWor ==
  \/ \E r \in 0..(MaxWorMoves - 1) : WorNext(r)
  \/ WorStop

SpecWor == InitWor /\ [][NextWor]_vars

(***************************************************************************)
(* local_search_first (solvers.py) run with the shift-insert engine.  gen  *)
(* is the generator behind available_local_moves.                          *)
(***************************************************************************)
MaxFirstSteps == 6   \* moves applied by one run of local_search_first

\* lines 189-197: the next move of the random order has a positive increment:
\* it is applied and the moves are enumerated anew
LocalSearchFirstStep(r) ==
  /\ outcome.op # "return"
  /\ outcome.err = "None"
  /\ steps < MaxFirstSteps
  /\ ~gen.exhausted
  /\ gen.i >= 1
  /\ r \in 0..(gen.i - 1)
  /\ \E local_moves \in {CallLocalMoves(problem, engine, Self)} :
     \E g \in {FYAdvance(gen, r)} :
     \E next_move \in {PyGet(local_moves, PyGet(g.yielded, -1))} :
       /\ CallObjectiveIncrLocal(problem, engine, Self, next_move) > 0
       /\ \E res \in {CallStep(problem, engine, Self, next_move)} :
            /\ SetSelf(res.self)
            /\ gen' = wor_indexes(CallLocalMoves(problem, engine, res.self))
            /\ outcome' = [op |-> "local_search_first", arg |-> next_move,
                           err |-> res.err, ret |-> res.ret]
  /\ steps' = steps + 1
  /\ UNCHANGED <<aco, problem, imp, engine>>

\* lines 189-192, 197: the next move of the random order has no positive
\* increment: the loop goes on to the move after it
LocalSearchFirstSkip(r) ==
  /\ outcome.op # "return"
  /\ outcome.err = "None"
  /\ ~gen.exhausted
  /\ gen.i >= 1
  /\ r \in 0..(gen.i - 1)
  /\ \E local_moves \in {CallLocalMoves(problem, engine, Self)} :
     \E g \in {FYAdvance(gen, r)} :
     \E next_move \in {PyGet(local_moves, PyGet(g.yielded, -1))} :
       /\ CallObjectiveIncrLocal(problem, engine, Self, next_move) <= 0
       /\ gen' = g
       /\ outcome' = [op |-> "local_search_first", arg |-> next_move,
                      err |-> "None", ret |-> None]
  /\ UNCHANGED <<aco, problem, imp, engine, steps, visited_cities, unvisited_cities,
                 total_distance, lower_bound_value, current_shortest_in,
                 current_shortest_out>>

\* lines 189, 191, 199: next(available_local_moves, None) is None
LocalSearchFirstReturn ==
  /\ outcome.op # "return"
  /\ outcome.err = "None"
  /\ gen.i < 1
  /\ gen' = FYFinish(gen)
  /\ outcome' = [op |-> "return", arg |-> <<>>, err |-> "None", ret |-> None]
  /\ UNCHANGED <<aco, problem, imp, engine, steps, visited_cities, unvisited_cities,
                 total_distance, lower_bound_value, current_shortest_in,
                 current_shortest_out>>

\* the shift-insert problems whose list of local moves has at most
\* MaxWorMoves moves; the search starts from the tour 0, 1, ..., dimension-1
FirstMatrices ==
  {MatrixOf(n, s, diag) : n \in WorDims("AtspShiftInsert") \cap LocalDims("AtspShiftInsert"),
                          s \in 0..MaxLocalSeed, diag \in Diagonals}

InitFirst ==
  /\ aco = NoAco
  /\ engine = "AtspShiftInsert"
  /\ \E dm \in FirstMatrices : problem = Problem(dm)
  /\ imp = "NewLbConstructor"
  /\ steps = 0
  /\ SelfIs(Constructed(problem, empty_solution(problem),
                        [k \in 1..(problem.dimension - 1) |-> k]))
  /\ gen = wor_indexes(CallLocalMoves(problem, engine, Self))
  /\ outcome = NoCall

NextFirst ==
  \/ \E r \in 0..(MaxWorMoves - 1) : LocalSearchFirstStep(r)
  \/ \E r \in 0..(MaxWorMoves - 1) : LocalSearchFirstSkip(r)
  \/ LocalSearchFirstReturn

\* the loop is sequential code: it keeps running until it returns
SpecFirst == InitFirst /\ [][NextFirst]_vars /\ WF_vars(NextFirst)

(***************************************************************************)
(* copy(): a second solution object next to the original.  The copy is     *)
(* kept in outcome.ret; the original stays in the tour variables.          *)
(***************************************************************************)
CopyOps == {"copy", "copy.add", "original.add"}

\* c = solution.copy()
Copy ==
  /\ outcome.err = "None"
  /\ outcome.op \notin CopyOps
  /\ outcome' = [op |-> "copy", arg |-> <<>>, err |-> "None",
                 ret |-> Some(copy(problem, Self))]
  /\ UNCHANGED <<gen, aco, problem, imp, engine, steps, visited_cities, unvisited_cities,
                 total_distance, lower_bound_value, current_shortest_in,
                 current_shortest_out>>

\* c.add(Component(c.visited_cities[-1], city)) on the copy
AddToCopy(city) ==
  /\ outcome.err = "None"
  /\ outcome.op \in CopyOps
  /\ \E c \in {outcome.ret[1]} :
       \E r \in {Solution_add(problem, c, <<PyGet(c.visited_cities, -1), city>>)} :
         outcome' = [op |-> "copy.add", arg |-> <<PyGet(c.visited_cities, -1), city>>,
                     err |-> r.err, ret |-> Some(r.self)]
  /\ UNCHANGED <<gen, aco, problem, imp, engine, steps, visited_cities, unvisited_cities,
                 total_distance, lower_bound_value, current_shortest_in,
                 current_shortest_out>>

\* solution.add(Component(visited_cities[-1], city)) on the original, the copy
\* being kept
AddToOriginal(city) ==
  /\ outcome.err = "None"
  /\ outcome.op \in CopyOps
  /\ LET arc == <<PyGet(visited_cities, -1), city>>
         r == CallAdd(problem, imp, Self, arc)
     IN /\ SetSelf(r.self)
        /\ outcome' = [op |-> "original.add", arg |-> arc, err |-> r.err,
                       ret |-> outcome.ret]
  /\ UNCHANGED <<gen, aco, problem, imp, engine, steps>>

InitCopy == Init /\ imp = "Solution"

NextCopy ==
  \/ \E city \in Cities(problem) : outcome.op \notin CopyOps /\ Add(city)
  \/ Copy
  \/ \E city \in Cities(problem) : AddToCopy(city)
  \/ \E city \in Cities(problem) : AddToOriginal(city)

SpecCopy == InitCopy /\ [][NextCopy]_vars

(***************************************************************************)
(* local_solvers/atsp_aco.py (Atsp3Aco) and the ACO loop of solvers.py.    *)
(* A pheromone entry is a float built from 0.0 by "+= 10 / distance" and   *)
(* "* degradation_factor"; it is kept here as the sequence of its deposits *)
(* in the order they were made, each one a pair                            *)
(*   <<distance of the depositing ant, times multiplied by the factor>>.   *)
(***************************************************************************)
LocalMove3Aco(path, distance) == [path |-> path, distance |-> distance]

\* Atsp3Aco.__init__: "[[0.0] * dimension] * dimension" is ONE row object
\* referenced dimension times (shared_rows) until the matrix is rebuilt
Atsp3Aco_init(P, ants_per_iteration) ==
  [phase |-> "idle",
   pheromones |-> [i \in 1..P.dimension |-> [j \in 1..P.dimension |-> <<>>]],
   shared_rows |-> TRUE,
   ants_per_iteration |-> ants_per_iteration,
   ants |-> <<>>]

\* _local_move, lines 70 and 78: the length of the closed cycle
total_length(P, cycle) ==
  SeqSum([k \in 1..Len(cycle) |-> D(P, cycle[k], cycle[(k % Len(cycle)) + 1])])

\* _local_move: the candidates one ant can return.  first_city is any city and
\* every weight given to random.choices is positive (the pheromone level is
\* floored at 1e-5, the divisor is a positive power of the distance or 1), so
\* each unvisited city can be the next one whatever the pheromone levels are.
Atsp3Aco_local_move(P) ==
  {LocalMove3Aco(cycle, total_length(P, cycle)) : cycle \in Orders(Cities(P))}

\* step, lines 113 and 115: self.pheromones[a][b] += 10 / distance
deposit(A, a, b, distance) ==
  [A EXCEPT !.pheromones =
     [i \in 1..Len(A.pheromones) |-> [j \in 1..Len(A.pheromones[i]) |->
        IF j = b + 1 /\ (i = a + 1 \/ A.shared_rows)
        THEN Append(A.pheromones[i][j], <<distance, 0>>)
        ELSE A.pheromones[i][j]]]]

\* step, lines 116-122: the matrix is rebuilt, every entry multiplied by
\* degradation_factor
evaporate(A) ==
  [A EXCEPT !.pheromones =
              [i \in 1..Len(A.pheromones) |-> [j \in 1..Len(A.pheromones[i]) |->
                 [t \in 1..Len(A.pheromones[i][j]) |->
                    <<A.pheromones[i][j][t][1], A.pheromones[i][j][t][2] + 1>>]]],
            !.shared_rows = FALSE]

\* step, lines 110-122: the body of "for lmove in lmoves".  For a cycle of
\* length 0 "delta = 10 / lmove.distance" raises ZeroDivisionError before
\* anything is deposited.
step_lmove(P, A, lmove) ==
  LET dep[m \in 0..(P.dimension - 1)] ==
        IF m = 0 THEN A
        ELSE deposit(dep[m - 1], lmove.path[m], lmove.path[m + 1], lmove.distance)
  IN IF lmove.distance = 0
     THEN [aco |-> A, err |-> "ZeroDivisionError"]
     ELSE [aco |-> evaporate(deposit(dep[P.dimension - 1], lmove.path[P.dimension],
                                     lmove.path[1], lmove.distance)),
           err |-> "None"]

\* Atsp3Aco.step: lmoves[0] raises IndexError on an empty list before
\* anything is assigned; an exception raised in the loop over lmoves leaves
\* the tour fields assigned and the pheromones as the earlier cycles left them
Atsp3Aco_step(P, S, A, lmoves) ==
  IF lmoves = <<>>
  THEN [self |-> S, aco |-> A, err |-> "IndexError", ret |-> None]
  ELSE LET after[m \in 0..Len(lmoves)] ==
             IF m = 0 THEN [aco |-> A, err |-> "None"]
             ELSE IF after[m - 1].err # "None" THEN after[m - 1]
             ELSE step_lmove(P, after[m - 1].aco, lmoves[m])
       IN [self |-> [S EXCEPT !.visited_cities = lmoves[1].path,
                              !.total_distance = lmoves[1].distance,
                              !.lower_bound_value = 2 * lmoves[1].distance],
           aco |-> after[Len(lmoves)].aco, err |-> after[Len(lmoves)].err,
           ret |-> None]

\* ACO, lines 238-244: elitism (the current tour as one more cycle), stable
\* sort by distance, the first ants_per_iteration // 2 cycles.  LocalMoveAco,
\* the name solvers.py imports from atsp_aco.py, is taken to be the class
\* LocalMove3Aco(path, distance) that module defines.
ACO_cycles(S, A, lmoves) ==
  LET cycles == Append(lmoves, LocalMove3Aco(S.visited_cities, objective(S)[1]))
      order == SortedIndexes([k \in 1..Len(cycles) |-> cycles[k].distance])
      sorted == [k \in 1..Len(cycles) |-> cycles[order[k] + 1]]
  IN PySlice(sorted, 0, A.ants_per_iteration \div 2)

PendingAnt == [state |-> "pending", lmove |-> <<>>, read |-> <<>>]

\* pool.map returns when a result has arrived for only one of the tasks
pool_map_done_any(ants) == \E a \in 1..Len(ants) : ants[a].state = "done"

\* local_moves, lines 88-89: pool.map returns the list of results when every
\* task has been completed by a worker
pool_map_done(ants) == \A a \in 1..Len(ants) : ants[a].state = "done"

\* "cycles = list(solution.local_moves())": the tasks range(ants_per_iteration)
\* are handed to the pool and the caller blocks in pool.map
LocalMovesCall ==
  /\ outcome.err = "None"
  /\ aco.phase = "idle"
  /\ steps < MaxRounds
  /\ aco' = [aco EXCEPT !.phase = "map",
                        !.ants = [a \in 1..aco.ants_per_iteration |-> PendingAnt]]
  /\ UNCHANGED <<gen, problem, imp, engine, steps, visited_cities, unvisited_cities,
                 total_distance, lower_bound_value, current_shortest_in,
                 current_shortest_out, outcome>>

\* a worker runs self._local_move for task a: it reads the pheromone matrix of
\* the object it was handed and returns its cycle
AntLocalMove(a, lmove) ==
  /\ aco.phase = "map"
  /\ a \in 1..Len(aco.ants)
  /\ aco.ants[a].state = "pending"
  /\ aco' = [aco EXCEPT !.ants[a] = [state |-> "done", lmove |-> lmove,
                                     read |-> aco.pheromones]]
  /\ UNCHANGED <<gen, problem, imp, engine, steps, visited_cities, unvisited_cities,
                 total_distance, lower_bound_value, current_shortest_in,
                 current_shortest_out, outcome>>

\* pool.map has returned; the rest of the iteration of the ACO loop: the
\* selection of the cycles and solution.step(cycles)
AcoIteration ==
  /\ aco.phase = "map"
  /\ pool_map_done(aco.ants)
  /\ LET done == SelectSeq(aco.ants, LAMBDA ant : ant.state = "done")
         lmoves == [k \in 1..Len(done) |-> done[k].lmove]
         cycles == ACO_cycles(Self, aco, lmoves)
         r == Atsp3Aco_step(problem, Self, aco, cycles)
     IN /\ SetSelf(r.self)
        /\ aco' = [r.aco EXCEPT !.phase = "idle", !.ants = <<>>]
        /\ outcome' = [op |-> "ACO", arg |-> cycles, err |-> r.err, ret |-> r.ret]
  /\ steps' = steps + 1
  /\ UNCHANGED <<gen, problem, imp, engine>>

\* the (dimension, ants_per_iteration) pairs the ant-colony engine is run on;
\* the two-city problem is run with up to MaxPairAnts ants
AcoSizes ==
  {nA \in (2..MaxAcoSize) \X (1..MaxAcoSize) : nA[1] + nA[2] <= MaxAcoSize}
    \cup {<<2, A>> : A \in 1..MaxPairAnts}

\* the distance matrices of dimension n the ant-colony engine is run on; on
\* two cities also the matrix of zeros, whose cycles have length 0
AcoMatrices(n) ==
  {MatrixOf(n, 0, 0)} \cup (IF n = 2 THEN {[i \in 1..n |-> [j \in 1..n |-> 0]]} ELSE {})

InitAco ==
  /\ gen = GenIdle
  /\ engine = "Atsp3Aco"
  /\ \E nA \in AcoSizes :
       /\ \E dm \in AcoMatrices(nA[1]) : problem = Problem(dm)
       /\ aco = Atsp3Aco_init(problem, nA[2])
  /\ imp = "NewLbConstructor"
  /\ steps = 0
  /\ \E order \in Orders(Cities(problem) \ {0}) :
       SelfIs(Constructed(problem, empty_solution(problem), order))
  /\ outcome = NoCall

NextAco ==
  \/ LocalMovesCall
  \/ \E a \in 1..(MaxAcoSize + MaxPairAnts) : \E lmove \in Atsp3Aco_local_move(problem) : AntLocalMove(a, lmove)
  \/ AcoIteration

SpecAco == InitAco /\ [][NextAco]_vars

(***************************************************************************)
(* Properties                                                              *)
(***************************************************************************)
Distinct(lst) == \A a, b \in 1..Len(lst) : a # b => lst[a] # lst[b]

IsPermutationOf(lst, S) == Len(lst) = Cardinality(S) /\ Elems(lst) = S /\ Distinct(lst)

RECURSIVE Factorial(_)
Factorial(n) == IF n <= 0 THEN 1 ELSE n * Factorial(n - 1)

\* C1: for every n >= 0 and every sequence of random draws,
\* sparse_fisher_yates_iter(n) yields exactly n values, all distinct, that
\* together are the set {0, ..., n-1}; for n = 0 it yields nothing.  (What has
\* been yielded so far is always a list of distinct values of [0, n).)
C1_YieldsEachValueOnce ==
  /\ Distinct(gen.yielded)
  /\ Elems(gen.yielded) \subseteq 0..(gen.n - 1)
  /\ Len(gen.yielded) = gen.n - gen.i
  /\ gen.i < 1 => IsPermutationOf(gen.yielded, 0..(gen.n - 1))
  /\ gen.n = 0 => gen.yielded = <<>>

\* a generator for n = 4 has been consumed to the end, and values were remapped
C1_Witness ==
  /\ gen.exhausted
  /\ gen.n = 4
  /\ Cardinality(DOMAIN gen.p) >= 2
  /\ gen.yielded # <<0, 1, 2, 3>>

\* C2: the map from draw sequences (r_{n-1}, ..., r_0), r_i in [0, i], to the
\* sequence yielded by sparse_fisher_yates_iter(n) is a bijection onto the
\* permutations of {0..n-1}: the sequence a consumed generator has yielded
\* comes from its own draws and from no other draw sequence, and the n! draw
\* sequences yield n! different permutations.
C2_DrawsToPermutationsBijective ==
  gen.exhausted =>
    LET image == {sparse_fisher_yates_iter(gen.n, d) : d \in DrawSeqs(gen.n)}
    IN /\ gen.draws \in DrawSeqs(gen.n)
       /\ sparse_fisher_yates_iter(gen.n, gen.draws) = gen.yielded
       /\ \A d \in DrawSeqs(gen.n) :
            sparse_fisher_yates_iter(gen.n, d) = gen.yielded => d = gen.draws
       /\ \A perm \in image : IsPermutationOf(perm, 0..(gen.n - 1))
       /\ Cardinality(image) = Factorial(gen.n)
       /\ Cardinality(DrawSeqs(gen.n)) = Factorial(gen.n)

\* a consumed generator for n = 3 whose draws were not all zero
C2_Witness ==
  /\ gen.exhausted
  /\ gen.n = 3
  /\ gen.draws = <<1, 1, 0>>
  /\ gen.yielded = <<1, 2, 0>>

(***************************************************************************)
(* Tour lengths and the assignment relaxation, computed from scratch       *)
(***************************************************************************)
\* sum of the consecutive edges of a list of cities
PathLength(P, lst) == SeqSum([k \in 1..(Len(lst) - 1) |-> D(P, lst[k], lst[k + 1])])

\* the path closed by the edge from its last city back to its first
ClosedLength(P, lst) == PathLength(P, lst) + D(P, lst[Len(lst)], lst[1])

Min(S) == CHOOSE x \in S : \A y \in S : x <= y

\* the feasible closed tours of a problem: city 0 followed by the others
ClosedTours(P) == {<<0>> \o t : t \in Orders(Cities(P) \ {0})}

\* Twice the assignment relaxation of a partial tour.  Committed edges count
\* in full.  The outgoing edge of the last visited city and of every
\* unvisited city is not committed: it counts half the distance to the
\* cheapest city still available as successor (another unvisited city, or the
\* anchor 0 for an unvisited city).  The incoming edge of the anchor and of
\* every unvisited city is not committed: it counts half the distance from the
\* cheapest city still available as predecessor (another unvisited city, or
\* the last visited city for an unvisited city).  A complete tour has every
\* edge committed, the closing edge included.
AssignmentRelaxation(P, visited, unvisited) ==
  IF unvisited = {} THEN 2 * ClosedLength(P, visited)
  ELSE LET last == visited[Len(visited)]
           succ(c) == IF c = last THEN unvisited ELSE (unvisited \ {c}) \cup {0}
           pred(c) == IF c = 0 THEN unvisited ELSE (unvisited \ {c}) \cup {last}
           out(c) == Min({D(P, c, x) : x \in succ(c)})
           in(c) == Min({D(P, x, c) : x \in pred(c)})
           cs == SetIter(unvisited)
       IN 2 * PathLength(P, visited)
            + out(last) + SeqSum([k \in 1..Len(cs) |-> out(cs[k])])
            + in(0) + SeqSum([k \in 1..Len(cs) |-> in(cs[k])])

BoundRepairImps == {"NewLbConstructor", "Solution"}

\* C3: for every sequence of add calls that builds a feasible tour from the
\* empty tour, lower_bound_value after each add equals the from-scratch
\* assignment relaxation of that partial tour.
C3_BoundEqualsRelaxation ==
  (imp \in BoundRepairImps /\ outcome.op = "add" /\ outcome.err = "None")
    => lower_bound_value = AssignmentRelaxation(problem, visited_cities, unvisited_cities)

\* C4: the lower bound of the empty tour (Problem.lower_bound, handed to the
\* empty solution by empty_solution) is at most the length of every feasible
\* closed tour over all cities of the problem.
C4_InitialBoundBelowEveryTour ==
  /\ outcome.op = "empty_solution" => lower_bound_value = problem.lower_bound
  /\ \A tour \in ClosedTours(problem) :
       problem.lower_bound <= 2 * ClosedLength(problem, tour)
  /\ (is_feasible(Self) /\ outcome.err = "None")
       => problem.lower_bound <= 2 * ClosedLength(problem, visited_cities)

\* a feasible tour of at least 4 cities has been built on a problem whose
\* initial bound is positive
C4_Witness ==
  /\ is_feasible(Self)
  /\ outcome.op = "add" /\ outcome.err = "None"
  /\ problem.dimension >= 4
  /\ problem.lower_bound > 0
  /\ total_distance = ClosedLength(problem, visited_cities)

\* C5: lower_bound_incr_add(component) never mutates the tour state, and
\* calling it again with the same component returns the same value.
C5_IncrAddDoesNotMutate ==
  /\ [][outcome'.op = "lower_bound_incr_add"
          => UNCHANGED <<visited_cities, unvisited_cities, total_distance,
                         lower_bound_value, current_shortest_in,
                         current_shortest_out>>]_vars
  /\ [](outcome.op = "lower_bound_incr_add" =>
          LET again == CallLowerBoundIncrAdd(problem, imp, Self, outcome.arg)
          IN again.err = outcome.err /\ again.ret = outcome.ret)

\* lower_bound_incr_add has returned a value after a run of the bound repair
\* that advanced cursors of its scratch copies
C5_Witness ==
  /\ outcome.op = "lower_bound_incr_add" /\ outcome.err = "None"
  /\ imp \in BoundRepairImps
  /\ LET u == IF imp = "Solution"
              THEN Solution_update_lower_bound(
                     problem, outcome.arg, visited_cities, unvisited_cities,
                     lower_bound_value, current_shortest_in, current_shortest_out)
              ELSE NewLbConstructor_update_lower_bound(
                     problem, outcome.arg, visited_cities, unvisited_cities,
                     lower_bound_value, current_shortest_in, current_shortest_out)
     IN u.csi # current_shortest_in \/ u.cso # current_shortest_out

\* C6: for every partial tour reachable by add calls and every component of
\* add_moves(), the value returned by lower_bound_incr_add(component) equals
\* lower_bound_value after add(component) minus lower_bound_value before it
\* (stated for the calls that both return).
C6_IncrAddPredictsAdd ==
  [][(/\ imp = "NewLbConstructor"
      /\ outcome'.op = "add" /\ outcome'.err = "None"
      /\ outcome'.arg \in add_moves(Self))
       => LET r == CallLowerBoundIncrAdd(problem, imp, Self, outcome'.arg)
          IN r.err = "None" => r.ret = Some(lower_bound_value' - lower_bound_value)]_vars

\* C7: for the 3-opt and the shift-insert engines, for every feasible tour and
\* every move yielded by local_moves(), total_distance after step(move) equals
\* total_distance before step(move) minus objective_incr_local(move) evaluated
\* before the step.
C7_StepSubtractsObjectiveIncr ==
  [][outcome'.op = "step"
       => /\ is_feasible(Self)
          /\ objective(Self') = Some(total_distance')
          /\ total_distance' =
               total_distance
                 - CallObjectiveIncrLocal(problem, engine, Self, outcome'.arg)]_vars

\* a shift-insert step moved a city to the front of the list (destination
\* index 0, whose predecessor is the last city) and changed the distance
C7_Witness ==
  /\ outcome.op = "step"
  /\ engine = "AtspShiftInsert"
  /\ outcome.arg.destination_index = 0
  /\ steps = 1
  /\ lower_bound_value = 2 * (-1)
  /\ PyGet(visited_cities, 0) # 0

\* C8: add(component) with component.arc = (u, v) and v in unvisited_cities
\* appends v to visited_cities, removes v from unvisited_cities and increases
\* total_distance by distance[u][v]; when unvisited_cities becomes empty it
\* additionally adds distance[v][0], so that on a feasible tour total_distance
\* equals the sum of all consecutive edges plus the closing edge back to city 0.
C8_AddExtendsTour ==
  /\ [][(outcome'.op = "add" /\ outcome'.arg[2] \in unvisited_cities)
          => LET u == outcome'.arg[1]
                 v == outcome'.arg[2]
             IN /\ visited_cities' = Append(visited_cities, v)
                /\ unvisited_cities' = unvisited_cities \ {v}
                /\ total_distance' =
                     total_distance + D(problem, u, v)
                       + (IF unvisited_cities' = {} THEN D(problem, v, 0) ELSE 0)]_vars
  /\ []((is_feasible(Self) /\ outcome.err # "KeyError")
          => total_distance = ClosedLength(problem, visited_cities))

\* C9: add called with a component whose destination city is not in
\* unvisited_cities ends in an error outcome instead of completing as a
\* normal add.
C9_AddOfVisitedCityFails ==
  [][(outcome'.op = "add" /\ outcome'.arg[2] \notin unvisited_cities)
       => outcome'.err = "KeyError"]_vars

\* add was called, on a tour with cities still to visit, for a city that had
\* already been visited, and raised
C9_Witness ==
  /\ outcome.op = "add" /\ outcome.err = "KeyError"
  /\ unvisited_cities # {}
  /\ Len(visited_cities) >= 3
  /\ outcome.arg[2] \in Elems(SubSeq(visited_cities, 1, Len(visited_cities) - 1))

\* C10: objective() is None exactly when the tour is infeasible
\* (unvisited_cities non-empty) and is total_distance exactly when
\* is_feasible() is true.
C10_ObjectiveDefinedIffFeasible ==
  outcome.op = "objective" =>
    /\ outcome.ret = None <=> unvisited_cities # {}
    /\ outcome.ret = Some(total_distance) <=> is_feasible(Self)

\* objective() was called on a partial tour of positive length and returned None
C10_Witness ==
  /\ outcome.op = "objective"
  /\ outcome.ret = None
  /\ ~is_feasible(Self)
  /\ total_distance > 0

\* C11: on the 4-city problem [[0,1,2,3],[1,0,4,5],[2,4,0,6],[3,5,6,0]],
\* greedy_construction from the empty tour scores arc (0,1) strictly below
\* (0,2) and (0,3) and adds it first, runs without error, and the
\* total_distance of the final feasible tour is the sum of its consecutive
\* edges plus the closing edge back to city 0.
C11_GreedyOnExample ==
  problem = Problem(SpecExample) =>
    /\ outcome.err = "None"
    /\ visited_cities = <<0>> =>
         LET inc(c) == CallLowerBoundIncrAdd(problem, imp, Self, <<0, c>>)
         IN /\ \A c \in 1..3 : inc(c).err = "None"
            /\ inc(1).ret[1] < inc(2).ret[1]
            /\ inc(1).ret[1] < inc(3).ret[1]
    /\ Len(visited_cities) >= 2 => visited_cities[2] = 1
    /\ is_feasible(Self) => total_distance = ClosedLength(problem, visited_cities)

\* greedy_construction has finished on the 4-city problem with the bound-repair
\* implementation: the tour is complete and started with arc (0,1)
C11_Witness ==
  /\ problem = Problem(SpecExample)
  /\ imp = "NewLbConstructor"
  /\ outcome.op = "greedy_construction"
  /\ is_feasible(Self)
  /\ Len(visited_cities) = 4
  /\ visited_cities[2] = 1

\* C12: local_search_best with the 3-opt engine, on any feasible tour, applies
\* only steps that strictly decrease objective(), returns after finitely many
\* steps, and returns in a state where no move yielded by local_moves() has a
\* positive objective_incr_local.
C12_BestImprovementConverges ==
  /\ [][outcome'.op = "local_search_best"
          => /\ objective(Self) # None /\ objective(Self') # None
             /\ objective(Self')[1] < objective(Self)[1]]_vars
  /\ [](outcome.op = "return"
          => \A m \in Elems(Atsp3Opt_local_moves(problem, Self)) :
               Atsp3Opt_objective_incr_local(problem, Self, m) <= 0)
  /\ <>(outcome.op = "return")

\* local_search_best returned after two improving steps, on a tour that still
\* has local moves
C12_Witness ==
  /\ outcome.op = "return"
  /\ steps >= 2
  /\ Atsp3Opt_local_moves(problem, Self) # <<>>

\* C13: after any sequence of add calls followed by any sequence of local-move
\* steps, visited_cities[0] is the anchor city 0.
C13_TourStartsAtAnchor == PyGet(visited_cities, 0) = 0

\* the city at the cursor of neighbour list lst is valid and no city at a
\* lower rank is
CheapestValid(lst, cursor, valid) ==
  /\ cursor < Len(lst)
  /\ lst[cursor + 1] \in valid
  /\ \A rank \in 1..cursor : lst[rank] \notin valid

\* C14: after every add, for every city c whose outgoing (resp. incoming) edge
\* is not yet committed, the city at c's cursor in shortest_out[c] (resp.
\* shortest_in[c]) is a city other than c that is still available as c's
\* successor (unvisited, or the anchor) (resp. predecessor: unvisited, or the
\* last visited city), and no city at a lower rank is.
C14_CursorsAtCheapestValid ==
  (imp \in BoundRepairImps /\ outcome.op = "add" /\ outcome.err = "None"
     /\ unvisited_cities # {})
    => LET last == PyGet(visited_cities, -1)
       IN /\ \A c \in unvisited_cities \cup {last} :
               CheapestValid(problem.shortest_out[c + 1], current_shortest_out[c + 1],
                             (unvisited_cities \cup {0}) \ {c})
          /\ \A c \in unvisited_cities \cup {0} :
               CheapestValid(problem.shortest_in[c + 1], current_shortest_in[c + 1],
                             (unvisited_cities \cup {last}) \ {c})

\* C15: copy() returns a tour state equal to the original in visited_cities,
\* unvisited_cities, total_distance, lower_bound_value and both cursor arrays;
\* a later add on the copy leaves these fields of the original unchanged, and
\* a later add on the original leaves them unchanged in the copy.
C15_CopyIsEqualAndIndependent ==
  /\ [](outcome.op = "copy" => outcome.ret = Some(Self))
  /\ [][outcome'.op = "copy.add" => Self' = Self]_vars
  /\ [][outcome'.op = "original.add" => outcome'.ret = outcome.ret]_vars

\* C16: for every partial tour reachable by add calls and every component
\* (last visited city, c) with c in unvisited_cities, lower_bound_incr_add and
\* add complete without failure, and no cursor is ever advanced past the last
\* rank (dimension - 1) of its neighbour list.
C16_BoundRepairNeverFails ==
  /\ [][(/\ outcome'.op \in {"add", "lower_bound_incr_add"}
         /\ outcome'.arg[1] = PyGet(visited_cities, -1)
         /\ outcome'.arg[2] \in unvisited_cities)
          => outcome'.err = "None"]_vars
  /\ [](\A c \in Cities(problem) :
          /\ current_shortest_in[c + 1] <= problem.dimension - 1
          /\ current_shortest_out[c + 1] <= problem.dimension - 1)

\* C17: in an ant-colony round no pheromone entry is modified while any ant is
\* still being constructed: every ant of the round reads the same pheromone
\* snapshot (the matrix as it is when the round starts), and deposits and
\* evaporation happen only after every worker has returned its candidate.
C17_PheromonesStableDuringRound ==
  /\ [][aco'.pheromones # aco.pheromones
          => /\ aco.phase = "map"
             /\ \A a \in 1..Len(aco.ants) : aco.ants[a].state = "done"]_vars
  /\ [](aco.phase = "map"
          => \A a \in 1..Len(aco.ants) :
               aco.ants[a].state = "done" => aco.ants[a].read = aco.pheromones)

\* all ants of a later round have returned, having read a matrix that holds
\* the deposits of an earlier round
C17_Witness ==
  /\ aco.phase = "map"
  /\ steps >= 1
  /\ Len(aco.ants) >= 2
  /\ \A a \in 1..Len(aco.ants) :
       /\ aco.ants[a].state = "done"
       /\ \E i, j \in 1..problem.dimension : aco.ants[a].read[i][j] # <<>>

\* C18: for every 3-opt move with cut indices i < j < k yielded by
\* local_moves() on a feasible tour, step(move) sets visited_cities to
\* old[0..i] + old[j+1..k] + old[i+1..j] + old[k+1..end]: the two interior
\* segments are exchanged, each in its own order, prefix and suffix unchanged.
C18_StepSwapsInteriorSegments ==
  [][(outcome'.op = "step" /\ engine = "Atsp3Opt" /\ is_feasible(Self))
       => LET old == visited_cities
              n == Len(old)
          IN \E i, j, k \in 0..(n - 2) :
               /\ i < j /\ j < k
               /\ outcome'.arg = LocalMove3Opt(old[i + 1], old[i + 2], old[j + 1],
                                               old[j + 2], old[k + 1], old[k + 2])
               /\ visited_cities' = SubSeq(old, 1, i + 1) \o SubSeq(old, j + 2, k + 1)
                                      \o SubSeq(old, i + 2, j + 1) \o SubSeq(old, k + 2, n)]_vars

\* a second 3-opt step has been applied, to the tour the first step left, and
\* the tour is not in ascending order of the cities
C18_Witness ==
  /\ outcome.op = "step"
  /\ engine = "Atsp3Opt"
  /\ steps = 2
  /\ outcome.err = "None"
  /\ \E c \in 1..Len(visited_cities) : visited_cities[c] # c - 1

\* index triples (i, j, k) with 0 <= i, i + 2 <= j, j + 2 <= k <= kmax
Triples3Opt(kmax) ==
  {t \in (0..kmax) \X (0..kmax) \X (0..kmax) : t[1] + 2 <= t[2] /\ t[2] + 2 <= t[3]}

\* the move of a triple of cut indices on the tour order, Z2 wrapping around
MoveOfTriple(order, t) ==
  LocalMove3Opt(order[t[1] + 1], order[t[1] + 2], order[t[2] + 1], order[t[2] + 2],
                order[t[3] + 1], order[((t[3] + 1) % Len(order)) + 1])

\* C19 as claimed: Atsp3Opt.local_moves() on a feasible tour of n cities yields
\* exactly one move for every index triple (i, j, k) with 0 <= i, i+2 <= j,
\* j+2 <= k <= n-1, where Z2 = order[(k+1) mod n] (the cut on the closing edge,
\* k = n-1, included), and nothing else.
C19_MovesIncludeClosingCut ==
  (engine = "Atsp3Opt" /\ is_feasible(Self))
    => LET moves == Atsp3Opt_local_moves(problem, Self)
           triples == Triples3Opt(Len(visited_cities) - 1)
       IN /\ Elems(moves) = {MoveOfTriple(visited_cities, t) : t \in triples}
          /\ Len(moves) = Cardinality(triples)

\* C19 amended: Atsp3Opt.local_moves() on a feasible tour of n cities yields
\* exactly one move for every index triple (i, j, k) with 0 <= i, i+2 <= j,
\* j+2 <= k <= n-2, where Z2 = order[k+1], and nothing else: the closing edge
\* back to the start is never cut.
C19_MovesExcludeClosingCut ==
  (engine = "Atsp3Opt" /\ is_feasible(Self))
    => LET moves == Atsp3Opt_local_moves(problem, Self)
           triples == Triples3Opt(Len(visited_cities) - 2)
       IN /\ Elems(moves) = {MoveOfTriple(visited_cities, t) : t \in triples}
          /\ Len(moves) = Cardinality(triples)

\* local_moves() of a tour of 7 cities rearranged by a step: four triples
C19_Witness ==
  /\ engine = "Atsp3Opt"
  /\ is_feasible(Self)
  /\ outcome.op = "local_search_best"
  /\ Len(visited_cities) = 7
  /\ Len(Atsp3Opt_local_moves(problem, Self)) = 4

\* C20: starting from a feasible tour whose total_distance is its exact closed
\* length, after any sequence of 3-opt steps with moves yielded by
\* local_moves() on the current tour, total_distance equals the recomputed
\* length of the closed tour described by visited_cities.
C20_DistanceExactAfter3OptSteps ==
  (engine = "Atsp3Opt" /\ is_feasible(Self))
    => total_distance = ClosedLength(problem, visited_cities)

\* the second 3-opt step applied a move with a non-zero increment
C20_Witness ==
  /\ engine = "Atsp3Opt"
  /\ outcome.op = "step"
  /\ steps = 2
  /\ Atsp3Opt_objective_incr_local(problem, Self, outcome.arg) # 0

\* the list lst without the city c
Without(lst, c) == SelectSeq(lst, LAMBDA x : x # c)

\* lst rotated to the left by r positions
Rotated(lst, r) == [k \in 1..Len(lst) |-> lst[((k - 1 + r) % Len(lst)) + 1]]

\* the city that follows c in the closed tour lst
CyclicNext(lst, c) == lst[((PyIndex(lst, c) + 1) % Len(lst)) + 1]

\* C21: for every shift-insert move (i, j) yielded by local_moves() on a
\* feasible tour, after step(move) the city that was at order[i] is immediately
\* followed in the tour by the city that was at order[j], and the relative
\* cyclic order of all other cities is unchanged.
C21_ShiftInsertPlacesCityBeforeDest ==
  [][(outcome'.op = "step" /\ engine = "AtspShiftInsert" /\ is_feasible(Self))
       => LET old == visited_cities
              city == old[outcome'.arg.city_index + 1]
              dest == old[outcome'.arg.destination_index + 1]
          IN /\ CyclicNext(visited_cities', city) = dest
             /\ \E r \in 0..(Len(old) - 1) :
                  Without(visited_cities', city) = Rotated(Without(old, city), r)]_vars

\* the directed edges of the closed tour lst
TourEdges(lst) == {<<lst[k], lst[(k % Len(lst)) + 1]>> : k \in 1..Len(lst)}

\* C22: starting from a feasible tour whose total_distance is its exact closed
\* length, after any sequence of shift-insert steps with moves yielded by
\* local_moves(), total_distance equals the recomputed length of the closed
\* tour described by visited_cities; the three edges the six-term delta
\* removes (prev-city, city-next, prevDest-dest) are three distinct edges of
\* the tour before the step and the three edges it adds are edges of the tour
\* after it.
C22_DistanceExactAfterShiftInsertSteps ==
  /\ []((engine = "AtspShiftInsert" /\ is_feasible(Self))
          => total_distance = ClosedLength(problem, visited_cities))
  /\ [][(outcome'.op = "step" /\ engine = "AtspShiftInsert")
          => LET old == visited_cities
                 n == Len(old)
                 i == outcome'.arg.city_index
                 j == outcome'.arg.destination_index
                 city == old[i + 1]
                 prev_city == old[((i - 1) % n) + 1]
                 next_city == old[((i + 1) % n) + 1]
                 dest == old[j + 1]
                 prev_dest == old[((j - 1) % n) + 1]
                 removed == {<<prev_city, city>>, <<city, next_city>>, <<prev_dest, dest>>}
                 added == {<<prev_city, next_city>>, <<city, dest>>, <<prev_dest, city>>}
             IN /\ Cardinality(removed) = 3
                /\ removed \subseteq TourEdges(old)
                /\ added \subseteq TourEdges(visited_cities')]_vars

\* C23: AtspShiftInsert.local_moves() yields exactly the pairs (i, j) with
\* 0 <= i, j < dimension whose destination j is neither the source position i
\* nor the position immediately before or after it, each pair once.
C23_ShiftInsertMoveSpace ==
  engine = "AtspShiftInsert"
    => LET n == problem.dimension
           moves == AtspShiftInsert_local_moves(problem, Self)
           pairs == {p \in (0..(n - 1)) \X (0..(n - 1)) :
                       p[2] \notin {p[1], (p[1] - 1) % n, (p[1] + 1) % n}}
       IN /\ Elems(moves) = {LocalMoveShiftInsert(p[1], p[2]) : p \in pairs}
          /\ Len(moves) = Cardinality(pairs)

\* C24: for the 3-opt and shift-insert engines, fully consuming
\* random_local_moves_wor() on an unchanged tour yields every move of
\* local_moves() exactly once (no move repeated or omitted), for every
\* possible sequence of random draws.
C24_WorYieldsEveryMoveOnce ==
  /\ outcome.err = "None"
  /\ outcome.op = "StopIteration"
       => LET local_moves == CallLocalMoves(problem, engine, Self)
          IN /\ Len(outcome.ret) = Len(local_moves)
             /\ \A k \in 1..Len(local_moves) :
                  Cardinality({x \in 1..Len(outcome.ret) :
                                 outcome.ret[x] = local_moves[k]}) = 1

\* a list of four moves has been consumed, in an order other than that of
\* local_moves()
C24_Witness ==
  /\ outcome.op = "StopIteration"
  /\ Len(outcome.ret) = 4
  /\ outcome.ret # CallLocalMoves(problem, engine, Self)
  /\ gen.draws # <<3, 2, 1, 0>>

\* C25: in one Atsp3Aco.step(ants) call the deposits of all selected ants
\* are made first and the evaporation factor is then applied exactly once
\* to every entry of the pheromone matrix, however many ants were selected:
\* every deposit made in the step, by the first ant or by the last, and
\* every deposit already in the matrix, is multiplied by the factor exactly
\* once in that step.
C25_EvaporationOncePerStep ==
  [][(aco.phase = "map" /\ aco'.phase = "idle" /\ outcome'.err = "None")
       => \A i \in 1..Len(aco.pheromones) : \A j \in 1..Len(aco.pheromones[i]) :
            LET old == aco.pheromones[i][j]
                new == aco'.pheromones[i][j]
            IN /\ Len(new) >= Len(old)
               /\ \A t \in 1..Len(new) :
                    new[t][2] = IF t <= Len(old) THEN old[t][2] + 1 ELSE 1]_vars

\* C26: after one ant-colony round (the candidates selected as in the ACO
\* driver, then step) the tour's visited_cities and total_distance are the
\* path and the length of a minimum-length candidate among those selected
\* for the step, for every non-empty set of sampled ants and every
\* ants_per_iteration >= 1.
C26_RoundInstallsBestSelected ==
  outcome.op = "ACO"
    => /\ outcome.err = "None"
       /\ \E k \in 1..Len(outcome.arg) :
            /\ \A m \in 1..Len(outcome.arg) :
                 outcome.arg[k].distance <= outcome.arg[m].distance
            /\ visited_cities = outcome.arg[k].path
            /\ total_distance = outcome.arg[k].distance

\* C27: in every state reachable by add calls followed by any local-move
\* steps (3-opt, shift-insert, ant-colony), visited_cities contains no city
\* twice, visited_cities and unvisited_cities are disjoint and together
\* contain exactly the cities 0..dimension-1; every ant path built by
\* _local_move is likewise a permutation of all cities.
C27_TourIsPartialPermutation ==
  /\ Distinct(visited_cities)
  /\ Elems(visited_cities) \cap unvisited_cities = {}
  /\ Elems(visited_cities) \cup unvisited_cities = Cities(problem)
  /\ aco.phase # "none"
       => \A a \in 1..Len(aco.ants) :
            aco.ants[a].state = "done"
              => IsPermutationOf(aco.ants[a].lmove.path, Cities(problem))

\* C28: when add fails because the component's destination city is not in
\* unvisited_cities, the tour state is left exactly as it was before the
\* call: visited_cities, unvisited_cities, total_distance, lower_bound_value
\* and both cursor arrays are unchanged.
C28_FailedAddLeavesStateUnchanged ==
  [][(outcome'.op = "add" /\ outcome'.arg[2] \notin unvisited_cities)
       => /\ outcome'.err # "None"
          /\ UNCHANGED <<visited_cities, unvisited_cities, total_distance,
                         lower_bound_value, current_shortest_in,
                         current_shortest_out>>]_vars

\* the directed edges of a closed cycle, as pairs of cities
CycleEdges(path) == {<<path[k], path[(k % Len(path)) + 1]>> : k \in 1..Len(path)}

\* C29: in every Atsp3Aco.step, including the first one after construction
\* of the pheromone matrix, a deposit for edge (a, b) of a selected ant
\* increases only pheromones[a][b]: an entry pheromones[x][y] of a pair
\* (x, y) that is an edge of no selected ant receives no deposit in that
\* step.
C29_DepositOnlyOnOwnEdge ==
  [][(aco.phase = "map" /\ aco'.phase = "idle" /\ outcome'.err = "None")
       => \A x, y \in Cities(problem) :
            (\A k \in 1..Len(outcome'.arg) : <<x, y>> \notin CycleEdges(outcome'.arg[k].path))
              => Len(aco'.pheromones[x + 1][y + 1]) = Len(aco.pheromones[x + 1][y + 1])]_vars

\* C30: local_search_first run with the shift-insert engine on any feasible
\* tour terminates for every choice of random order: there is no infinite
\* sequence of applied moves each of which has positive
\* objective_incr_local at the time it is applied.  The increments depend on
\* visited_cities only, so a run whose applied moves bring the tour back to
\* the order it started from can apply the same moves again without end:
\* no run of applied moves returns to its starting order.
C30_LocalSearchFirstTerminates ==
  steps > 0 => visited_cities # [k \in 1..problem.dimension |-> k - 1]

====
